---- MODULE Spec2Model ----
(***************************************************************************)
(* Payment API: the idempotency middleware wrapped around the transaction *)
(* creation view, the asynchronous settlement task, the webhook fan-out   *)
(* and the webhook delivery task with its retry policy.                   *)
(*                                                                         *)
(* One request is a process that runs the middleware's check, the view    *)
(* and the middleware's store as separate database steps; one delivery of *)
(* a Celery task is a process that runs the task's steps.                 *)
(***************************************************************************)
EXTENDS Integers, Sequences, FiniteSets, TLC

\* ---------------------------------------------------------------- bounds
MaxReq == 2          \* concurrent POST /transactions/pay requests
MaxDeliveries == 2   \* deliveries of one settlement message (at-least-once)

Requests == 1..MaxReq
Transactions == 1..MaxReq      \* ids of the transactions ever created
Deliveries == 1..MaxDeliveries
Merchants == {1, 2}
NoKey == "none"
Keys == {"k1"}
NoTx == 0
WebhookIds == {1, 2} \* ids of the webhook endpoints ever registered
\* deliver_webhook jobs ever enqueued: as many as one fan-out to every endpoint
\* (jobs share no state with each other).
MaxDispatch == Cardinality(WebhookIds)

\* ---------------------------------------------------------------- data
\* PaymentKey rows present after set-up: who owns each active key.
PaymentKeyOwner == [pk1 |-> 1, pk2 |-> 2]
ActivePaymentKeys == DOMAIN PaymentKeyOwner

\* What a client may send: Idempotency-Key header (or none), the merchant the
\* token authenticates, the amount and the payment key of the body.
RequestInputs ==
  [key : Keys \cup {NoKey}, method : {"POST"}, merchant : Merchants,
   amount : {0, 1, 2}, pk : {"pk1", "bad"}]

VARIABLES
  req,        \* req[r]: the request process r (position, inputs, locals)
  idem,       \* IdempotencyKey table: key -> row, or NoRow
  txs,        \* Transaction table: id (1..Len) -> row
  settle,     \* settle[t][d]: delivery d of process_transaction(t)
  lockOwner,  \* lockOwner[t]: delivery holding the row lock of t, or 0
  fanout,     \* fanout[t]: send_webhooks(t) messages: queued and ever enqueued
  webhooks,   \* Webhook table: id (1..Len) -> row
  dispatch,   \* deliver_webhook jobs, in the order they were enqueued
  refunds,    \* Refund table: rows in the order they were inserted
  rfq,        \* rfq[q]: the refund request process q
  cache,      \* the read cache: cache.detail[t], cache.list[m]
  lst,        \* lst[l]: the transaction-list request process l
  det,        \* the last answer of the transaction-detail view
  stray       \* stray[id]: process_transaction(id) for an id without a row

vars == <<req, idem, txs, settle, lockOwner, fanout, webhooks, dispatch,
          refunds, rfq, cache, lst, det, stray>>

\* ---------------------------------------------------------------- responses
\* A response body is the envelope of standard_response; enc counts how many
\* times it has been turned into a JSON string (0: the object itself).
Body(success, id, amount, error) ==
  [enc |-> 0, success |-> success, id |-> id, amount |-> amount, error |-> error]

\* json.dumps(x): the value becomes a JSON string of the value.
JsonDumps(b) == [b EXCEPT !.enc = @ + 1]

\* json.loads(x) of the middleware's replay: a string is decoded one level;
\* a dict makes json.loads raise and the except branch keeps the value.
JsonLoadsOrSelf(b) == IF b.enc = 0 THEN b ELSE [b EXCEPT !.enc = @ - 1]

standard_response(success, id, amount, error, status_code) ==
  [status |-> status_code, body |-> Body(success, id, amount, error)]

NoResp == [status |-> 0, body |-> Body(FALSE, NoTx, 0, "none")]
NoRow == [status |-> 0, body |-> Body(FALSE, NoTx, 0, "none")]

Populated(row) == row # NoRow

\* ---------------------------------------------------------------- requests
\* out is what the view (get_response) handed back to the middleware.
IdleReq ==
  [pc |-> "idle", key |-> NoKey, method |-> "POST", merchant |-> 1, amount |-> 0,
   pk |-> "bad", flag |-> FALSE, saw |-> NoRow, made |-> NoTx, resp |-> NoResp,
   out |-> NoResp]

\* views.py 86, 123: if idempotency_key (the view is reached by POST only)
Guarded(r) == req[r].key # NoKey

\* middleware.py 19: request.method in ('POST', 'PUT')
GuardedMethods == {"POST", "PUT"}

\* The request as it reaches the middleware.
Received(r, inp) ==
  [req[r] EXCEPT !.key = inp.key, !.method = inp.method, !.merchant = inp.merchant,
                 !.amount = inp.amount, !.pk = inp.pk]

\* A gate that replays stored successes only.
GateCheckReplaysCreatedOnly(row) == Populated(row) /\ row.status = 201

\* middleware.py 22-23: existing and existing.response_body is not None
GateCheckReplays(row) == Populated(row)

\* middleware.py 15-34: the check step, one atomic block. Requests are
\* numbered in their order of arrival at the middleware.
GateCheck(r, inp) ==
  /\ req[r].pc = "idle"
  /\ IF r = 1 THEN TRUE ELSE req[r - 1].pc # "idle"
  /\ LET guarded == inp.key # NoKey /\ inp.method \in GuardedMethods
         row == IF guarded THEN idem[inp.key] ELSE NoRow
         base == Received(r, inp)
     IN IF guarded /\ GateCheckReplays(row)
        THEN req' = [req EXCEPT ![r] =
               [base EXCEPT !.pc = "done", !.saw = row,
                            !.resp = [status |-> row.status,
                                      body |-> JsonLoadsOrSelf(row.body)]]]
        ELSE req' = [req EXCEPT ![r] =
               [base EXCEPT !.pc = IF guarded THEN "view" ELSE "create",
                            !.flag = guarded]]
  /\ UNCHANGED <<idem, txs, settle, lockOwner, fanout, webhooks, dispatch, refunds, rfq, cache, lst, det, stray>>

\* A middleware that stores every response.
AfterViewAlwaysStores(r) == "store"

\* middleware.py 39, 70: without the flag the response is returned as it is.
AfterView(r) == IF req[r].flag THEN "store" ELSE "done"

\* The view returns resp to the middleware.
ViewReturns(r, resp) ==
  [req EXCEPT ![r].pc = AfterView(r), ![r].resp = resp, ![r].out = resp]

\* views.py 86-94: the view's own look-up of the key (skipped without a key).
ViewCheck(r) ==
  /\ req[r].pc = "view"
  /\ LET row == idem[req[r].key]
     IN IF Populated(row)
        THEN req' = ViewReturns(r, [status |-> row.status, body |-> row.body])
        ELSE req' = [req EXCEPT ![r].pc = "create"]
  /\ UNCHANGED <<idem, txs, settle, lockOwner, fanout, webhooks, dispatch, refunds, rfq, cache, lst, det, stray>>

\* A creation that sends the settlement message twice.
TwoDeliveries == [d \in 1..MaxDeliveries |-> IF d <= 2 THEN "queued" ELSE "none"]

\* views.py 117: process_transaction.delay(tx.id), one message.
NewDeliveries == [d \in 1..MaxDeliveries |-> IF d = 1 THEN "queued" ELSE "none"]

\* ---- the read cache (django cache; keys of views.py 152, 196)
\* A cached list page: the ids on it. overlapped is a history mark (not data):
\* the page was read from the database before a creation that has since
\* invalidated the merchant's pages.
NoPage == [ids |-> {NoTx}, overlapped |-> FALSE]
NoData == [id |-> NoTx, merchant |-> 0, status |-> "none"]

ListReaders == {1, 2}

\* An invalidation that removes nothing.
ListDeleteNothing(c, m) == c

\* views.py 120, 256: cache.delete_pattern("merchant:{id}:transactions:*")
ListDeletePattern(c, m) == [c EXCEPT !.list[m] = NoPage]

\* The list requests of m that have read the database and not yet cached.
MarkOverlapped(m) ==
  [l \in ListReaders |->
     IF lst[l].pc = "queried" /\ lst[l].merchant = m
     THEN [lst[l] EXCEPT !.page.overlapped = TRUE] ELSE lst[l]]

\* views.py 84-122: a method other than POST is answered 405 by the framework;
\* else validation, Transaction.objects.create, process_transaction.delay,
\* cache.delete_pattern.
ViewCreate(r) ==
  /\ req[r].pc = "create"
  /\ IF req[r].method # "POST"
     THEN /\ req' = ViewReturns(r, standard_response(FALSE, NoTx, 0, "method", 405))
          /\ UNCHANGED <<txs, settle, lockOwner, fanout, cache, lst>>
     ELSE IF req[r].amount <= 0 \/ req[r].pk \notin ActivePaymentKeys
     THEN /\ req' = ViewReturns(r, standard_response(FALSE, NoTx, 0, "invalid", 400))
          /\ UNCHANGED <<txs, settle, lockOwner, fanout, cache, lst>>
     ELSE IF PaymentKeyOwner[req[r].pk] # req[r].merchant
     THEN /\ req' = ViewReturns(r, standard_response(FALSE, NoTx, 0, "not your key", 403))
          /\ UNCHANGED <<txs, settle, lockOwner, fanout, cache, lst>>
     ELSE LET id == Len(txs) + 1
              res == standard_response(TRUE, id, req[r].amount, "none", 201)
          IN /\ txs' = Append(txs, [merchant |-> req[r].merchant,
                                    amount |-> req[r].amount, status |-> "pending"])
             /\ settle' = Append(settle, NewDeliveries)
             /\ lockOwner' = Append(lockOwner, 0)
             /\ fanout' = Append(fanout, [queued |-> 0, total |-> 0])
             /\ cache' = ListDeletePattern(cache, req[r].merchant)
             /\ lst' = MarkOverlapped(req[r].merchant)
             /\ IF Guarded(r)
                THEN req' = [req EXCEPT ![r].made = id, ![r].pc = "record", ![r].resp = res]
                ELSE req' = [ViewReturns(r, res) EXCEPT ![r].made = id]
  /\ UNCHANGED <<idem, webhooks, dispatch, refunds, rfq, det, stray>>

\* views.py 123-134: IdempotencyKey.objects.create; the key column is unique, a
\* second insert raises IntegrityError and the except branch answers 400.
ViewRecord(r) ==
  /\ req[r].pc = "record"
  /\ IF Populated(idem[req[r].key])
     THEN /\ req' = ViewReturns(r, standard_response(FALSE, NoTx, 0, "integrity", 400))
          /\ UNCHANGED idem
     ELSE /\ idem' = [idem EXCEPT ![req[r].key] =
                 [status |-> 201, body |-> req[r].resp.body]]
          /\ req' = ViewReturns(r, req[r].resp)
  /\ UNCHANGED <<txs, settle, lockOwner, fanout, webhooks, dispatch, refunds, rfq, cache, lst, det, stray>>

\* What Django hands the middleware when an exception leaves the view: a plain
\* 500 response.
ServerError == standard_response(FALSE, NoTx, 0, "server error", 500)

\* middleware.py 42-52: response.render() and json.dumps(response.data); a
\* response without render() ends in the except branch and its fixed message.
Captured(resp) ==
  IF resp = ServerError THEN Body(FALSE, NoTx, 0, "uncaptured") ELSE resp.body

\* middleware.py 39-70: update_or_create of the row with the response just made.
GateStoreRow(old, resp) == [status |-> resp.status, body |-> JsonDumps(Captured(resp))]

GateStore(r) ==
  /\ req[r].pc = "store"
  /\ idem' = [idem EXCEPT ![req[r].key] = GateStoreRow(@, req[r].resp)]
  /\ req' = [req EXCEPT ![r].pc = "done"]
  /\ UNCHANGED <<txs, settle, lockOwner, fanout, webhooks, dispatch, refunds, rfq, cache, lst, det, stray>>

\* ---- failures around the gate
\* A gate that answers 503 when it cannot read the store.
OnCheckErrorBlocks(q) ==
  [q EXCEPT !.pc = "done",
            !.resp = standard_response(FALSE, NoTx, 0, "unavailable", 503)]

\* middleware.py 33-36: the exception of the check step is logged, the flag
\* stays False and the view is called.
OnCheckError(q) == [q EXCEPT !.pc = "view", !.flag = FALSE]

\* middleware.py 19-34 with the store unavailable.
GateCheckFail(r, inp) ==
  /\ req[r].pc = "idle"
  /\ IF r = 1 THEN TRUE ELSE req[r - 1].pc # "idle"
  /\ inp.key # NoKey /\ inp.method \in GuardedMethods
  /\ req' = [req EXCEPT ![r] = OnCheckError(Received(r, inp))]
  /\ UNCHANGED <<idem, txs, settle, lockOwner, fanout, webhooks, dispatch, refunds, rfq, cache, lst, det, stray>>

\* views.py 89, 132-134: the view's own look-up raises, the except branch
\* answers 400.
ViewCheckFail(r) ==
  /\ req[r].pc = "view"
  /\ req' = ViewReturns(r, standard_response(FALSE, NoTx, 0, "error", 400))
  /\ UNCHANGED <<idem, txs, settle, lockOwner, fanout, webhooks, dispatch, refunds, rfq, cache, lst, det, stray>>

\* middleware.py 36: an exception leaves the view before its try block
\* (authentication, permissions); the middleware receives the 500 response.
HandlerRaise(r) ==
  /\ req[r].pc = "view"
  /\ req' = ViewReturns(r, ServerError)
  /\ UNCHANGED <<idem, txs, settle, lockOwner, fanout, webhooks, dispatch, refunds, rfq, cache, lst, det, stray>>

\* middleware.py 66-70: the exception of the store step is logged and the
\* response is returned.
OnStoreError(q) == [q EXCEPT !.pc = "done"]

\* middleware.py 54-70 with the store unavailable.
GateStoreFail(r) ==
  /\ req[r].pc = "store"
  /\ req' = [req EXCEPT ![r] = OnStoreError(@)]
  /\ UNCHANGED <<idem, txs, settle, lockOwner, fanout, webhooks, dispatch, refunds, rfq, cache, lst, det, stray>>

\* ---------------------------------------------------------------- settlement
\* tasks.py 19-40, process_transaction(transaction_id). One delivery d of the
\* message for transaction t goes queued -> locked -> committed -> done, or
\* ends "raised" when an exception leaves the task.

SetDelivery(t, d, pc) == [settle EXCEPT ![t][d] = pc]

\* The broker delivers the message of t once more (at-least-once delivery).
Redeliver(t, d) ==
  /\ t \in 1..Len(txs)
  /\ d \in 2..MaxDeliveries
  /\ settle[t][d] = "none"
  /\ settle[t][d - 1] # "none"
  /\ settle' = SetDelivery(t, d, "queued")
  /\ UNCHANGED <<req, idem, txs, lockOwner, fanout, webhooks, dispatch, refunds, rfq, cache, lst, det, stray>>

\* A read of the row that does not wait for the lock (no select_for_update).
SettleLockNoWait(t, d) ==
  /\ t \in 1..Len(txs)
  /\ settle[t][d] = "queued"
  /\ lockOwner' = [lockOwner EXCEPT ![t] = d]
  /\ settle' = SetDelivery(t, d, "locked")
  /\ UNCHANGED <<req, idem, txs, fanout, webhooks, dispatch, refunds, rfq, cache, lst, det, stray>>

\* tasks.py 26-27: select_for_update().get(id=...) waits for the row lock.
SettleLock(t, d) ==
  /\ t \in 1..Len(txs)
  /\ settle[t][d] = "queued"
  /\ lockOwner[t] = 0
  /\ lockOwner' = [lockOwner EXCEPT ![t] = d]
  /\ settle' = SetDelivery(t, d, "locked")
  /\ UNCHANGED <<req, idem, txs, fanout, webhooks, dispatch, refunds, rfq, cache, lst, det, stray>>

\* tasks.py 29: 'succeeded' if random.random() > 0.2 else 'failed'; the row's
\* current status is not read.
SettleOutcomes(current) == {"succeeded", "failed"}

\* A settlement whose commit leaves the row lock taken.
SettleCommitKeepsLock(t, d) ==
  /\ t \in 1..Len(txs)
  /\ settle[t][d] = "locked"
  /\ \E s \in SettleOutcomes(txs[t].status) :
       txs' = [txs EXCEPT ![t].status = s]
  /\ settle' = SetDelivery(t, d, "committed")
  /\ UNCHANGED <<req, idem, lockOwner, fanout, webhooks, dispatch, refunds, rfq, cache, lst, det, stray>>

\* tasks.py 28-31: assign, save, leave the atomic block (commit, lock released).
SettleCommit(t, d) ==
  /\ t \in 1..Len(txs)
  /\ settle[t][d] = "locked"
  /\ \E s \in SettleOutcomes(txs[t].status) :
       txs' = [txs EXCEPT ![t].status = s]
  /\ lockOwner' = [lockOwner EXCEPT ![t] = 0]
  /\ settle' = SetDelivery(t, d, "committed")
  /\ UNCHANGED <<req, idem, fanout, webhooks, dispatch, refunds, rfq, cache, lst, det, stray>>

\* What an atomic block that is left by an exception writes: nothing.
RolledBack(row, s) == row

\* tasks.py 26-30, 38-40: the database raises inside the atomic block; the
\* block rolls back, the lock is released and the exception is re-raised.
SettleAbort(t, d) ==
  /\ t \in 1..Len(txs)
  /\ settle[t][d] = "locked"
  /\ \E s \in SettleOutcomes(txs[t].status) :
       txs' = [txs EXCEPT ![t] = RolledBack(@, s)]
  /\ lockOwner' = [lockOwner EXCEPT ![t] = 0]
  /\ settle' = SetDelivery(t, d, "raised")
  /\ UNCHANGED <<req, idem, fanout, webhooks, dispatch, refunds, rfq, cache, lst, det, stray>>

\* A task that enqueues the fan-out inside the atomic block.
EnqueueInsideBlock == "locked"

\* tasks.py 26-34: the position of a delivery when it enqueues the fan-out:
\* the statement follows the with-block.
EnqueuePoint == "committed"

\* tasks.py 34: send_webhooks.delay(tx.id), after the atomic block.
SettleEnqueue(t, d) ==
  /\ t \in 1..Len(txs)
  /\ settle[t][d] = EnqueuePoint
  /\ fanout' = [fanout EXCEPT ![t] = [queued |-> @.queued + 1, total |-> @.total + 1]]
  /\ settle' = SetDelivery(t, d, "done")
  /\ UNCHANGED <<req, idem, txs, lockOwner, webhooks, dispatch, refunds, rfq, cache, lst, det, stray>>

\* tasks.py 34, 38-40: the broker refuses the message; the exception is
\* logged and re-raised.
SettleEnqueueFail(t, d) ==
  /\ t \in 1..Len(txs)
  /\ settle[t][d] = EnqueuePoint
  /\ settle' = SetDelivery(t, d, "raised")
  /\ UNCHANGED <<req, idem, txs, lockOwner, fanout, webhooks, dispatch, refunds, rfq, cache, lst, det, stray>>

\* Transaction ids that no row has: the table never holds more than MaxReq
\* rows, and ids are not reused.
MissingIds == {MaxReq + 1, MaxReq + 2}

\* tasks.py 19: a process_transaction message arrives for an id without a row
\* (the task accepts any id).
StrayArrives(id) ==
  /\ id \in MissingIds
  /\ stray[id] = "none"
  /\ stray' = [stray EXCEPT ![id] = "queued"]
  /\ UNCHANGED <<req, idem, txs, settle, lockOwner, fanout, webhooks, dispatch, refunds, rfq, cache, lst, det>>

\* A handler that re-raises every exception.
HandlerReraises(exc) == "raised"

\* tasks.py 36-40: the except clauses of process_transaction:
\* Transaction.DoesNotExist is logged and swallowed, every other exception is
\* logged and re-raised.
Handler(exc) == IF exc = "DoesNotExist" THEN "ended" ELSE "raised"

\* tasks.py 27: the exception of .get(id=transaction_id) for this id.
GetRow(id) == IF id \in 1..Len(txs) THEN "row" ELSE "DoesNotExist"

\* tasks.py 21-37: the whole run for an id without a row: get() raises inside
\* the atomic block before any lock or write, line 34 is skipped, and the
\* except clauses decide how the run ends.
SettleMissing(id) ==
  /\ id \in MissingIds
  /\ stray[id] = "queued"
  /\ GetRow(id) = "DoesNotExist"
  /\ stray' = [stray EXCEPT ![id] = Handler(GetRow(id))]
  /\ UNCHANGED <<req, idem, txs, settle, lockOwner, fanout, webhooks, dispatch, refunds, rfq, cache, lst, det>>

\* ---------------------------------------------------------------- webhooks
\* views.py 296-313, WebhookListCreateView.post: ids are never reused.
WebhookCreate(m) ==
  /\ Len(webhooks) + 1 \in WebhookIds
  /\ webhooks' = Append(webhooks, [merchant |-> m, live |-> TRUE])
  /\ UNCHANGED <<req, idem, txs, settle, lockOwner, fanout, dispatch, refunds, rfq, cache, lst, det, stray>>

\* views.py 315-333, WebhookDeleteView.destroy: the queryset is the caller's own.
WebhookDelete(m, w) ==
  /\ w \in 1..Len(webhooks)
  /\ webhooks[w].live
  /\ webhooks[w].merchant = m
  /\ webhooks' = [webhooks EXCEPT ![w].live = FALSE]
  /\ UNCHANGED <<req, idem, txs, settle, lockOwner, fanout, dispatch, refunds, rfq, cache, lst, det, stray>>

\* tasks.py 74: Webhook.objects.filter(merchant=tx.merchant)
WebhooksOf(m) == {w \in 1..Len(webhooks) : webhooks[w].live /\ webhooks[w].merchant = m}

\* tasks.py 80-88: the payload is read from the row when the fan-out runs.
Payload(t) == [id |-> t, status |-> txs[t].status, amount |-> txs[t].amount]

NewJob(w, payload) ==
  [wb |-> w, payload |-> payload, retries |-> 0, runs |-> 0, posts |-> 0,
   state |-> "queued", logged |-> 0, last |-> "none"]

RECURSIVE JobsFor(_, _)
\* tasks.py 90-91: for wb in webhooks: deliver_webhook.delay(wb.id, payload)
JobsFor(ws, payload) ==
  IF ws = {} THEN <<>>
  ELSE LET w == CHOOSE x \in ws : \A y \in ws : x <= y
       IN <<NewJob(w, payload)>> \o JobsFor(ws \ {w}, payload)

\* tasks.py 69-98, send_webhooks(transaction_id).
SendWebhooks(t) ==
  /\ t \in 1..Len(txs)
  /\ fanout[t].queued > 0
  /\ LET new == JobsFor(WebhooksOf(txs[t].merchant), Payload(t))
     IN /\ Len(dispatch) + Len(new) <= MaxDispatch
        /\ dispatch' = dispatch \o new
  /\ fanout' = [fanout EXCEPT ![t].queued = @ - 1]
  /\ UNCHANGED <<req, idem, txs, settle, lockOwner, webhooks, refunds, rfq, cache, lst, det, stray>>

\* tasks.py 14: retry_kwargs = {'max_retries': 2, 'countdown': 3}
max_retries == 2

\* A retry policy that tests the counter after one retry too many.
AfterFailureOffByOne(job) ==
  IF job.retries <= max_retries
  THEN [job EXCEPT !.retries = @ + 1]
  ELSE [job EXCEPT !.state = "failed", !.logged = @ + 1]

\* A retry policy whose last failure goes unrecorded.
AfterFailureSilent(job) ==
  IF job.retries < max_retries
  THEN [job EXCEPT !.retries = @ + 1]
  ELSE [job EXCEPT !.state = "failed"]

\* tasks.py 11-17, 59-67: every exception is re-raised; autoretry_for retries
\* the task while retries < max_retries, then the task fails and on_failure
\* logs the permanent failure.
AfterFailure(job) ==
  IF job.retries < max_retries
  THEN [job EXCEPT !.retries = @ + 1]
  ELSE [job EXCEPT !.state = "failed", !.logged = @ + 1]

\* A task whose success path also reaches the failure handler.
AfterSuccessLogged(job) == [job EXCEPT !.state = "delivered", !.logged = @ + 1]

\* tasks.py 45-57: the row is found, requests.post answers 2xx.
AfterSuccess(job) == [job EXCEPT !.state = "delivered"]

\* What the endpoint may do with the POST: answer with a status of one of the
\* five classes, or not answer (timeout, connection error).
Answers == {"1xx", "2xx", "3xx", "4xx", "5xx", "timeout"}

\* tasks.py 49-55: requests.post raises for a timeout or connection error,
\* resp.raise_for_status() raises for a 4xx or 5xx status and for no other.
PostRaises(a) == a \in {"4xx", "5xx", "timeout"}

\* One run of the task that got as far as the POST, answered with a.
Posted(job, a) == [job EXCEPT !.runs = @ + 1, !.posts = @ + 1, !.last = a]

\* tasks.py 45-67: one run of deliver_webhook whose POST is answered with a.
DeliverAnswer(i, a) ==
  /\ i \in 1..Len(dispatch)
  /\ dispatch[i].state = "queued"
  /\ webhooks[dispatch[i].wb].live
  /\ dispatch' = [dispatch EXCEPT ![i] =
       IF PostRaises(a) THEN AfterFailure(Posted(@, a)) ELSE AfterSuccess(Posted(@, a))]
  /\ UNCHANGED <<req, idem, txs, settle, lockOwner, fanout, webhooks, refunds, rfq, cache, lst, det, stray>>

\* tasks.py 45-57: a run whose POST is answered 2xx.
DeliverOk(i) ==
  /\ i \in 1..Len(dispatch)
  /\ dispatch[i].state = "queued"
  /\ webhooks[dispatch[i].wb].live
  /\ dispatch' = [dispatch EXCEPT ![i] = AfterSuccess(Posted(@, "2xx"))]
  /\ UNCHANGED <<req, idem, txs, settle, lockOwner, fanout, webhooks, refunds, rfq, cache, lst, det, stray>>

\* A failure that also gives up the other queued jobs of the same fan-out.
DeliverFailAbortsBatch(i) ==
  /\ i \in 1..Len(dispatch)
  /\ dispatch[i].state = "queued"
  /\ webhooks[dispatch[i].wb].live
  /\ dispatch' = [j \in 1..Len(dispatch) |->
       IF j = i
       THEN AfterFailure(Posted(dispatch[j], "5xx"))
       ELSE IF dispatch[j].state = "queued" /\ dispatch[j].payload.id = dispatch[i].payload.id
            THEN [dispatch[j] EXCEPT !.state = "failed"]
            ELSE dispatch[j]]
  /\ UNCHANGED <<req, idem, txs, settle, lockOwner, fanout, webhooks, refunds, rfq, cache, lst, det, stray>>

\* tasks.py 49-55, 62-64: a run whose POST raises (here: answered 5xx).
DeliverFail(i) ==
  /\ i \in 1..Len(dispatch)
  /\ dispatch[i].state = "queued"
  /\ webhooks[dispatch[i].wb].live
  /\ dispatch' = [dispatch EXCEPT ![i] = AfterFailure(Posted(@, "5xx"))]
  /\ UNCHANGED <<req, idem, txs, settle, lockOwner, fanout, webhooks, refunds, rfq, cache, lst, det, stray>>

\* tasks.py 46, 59-61: the endpoint was deleted, Webhook.DoesNotExist.
DeliverGone(i) ==
  /\ i \in 1..Len(dispatch)
  /\ dispatch[i].state = "queued"
  /\ ~webhooks[dispatch[i].wb].live
  /\ dispatch' = [dispatch EXCEPT ![i] = AfterFailure([@ EXCEPT !.runs = @ + 1])]
  /\ UNCHANGED <<req, idem, txs, settle, lockOwner, fanout, webhooks, refunds, rfq, cache, lst, det, stray>>

\* ---------------------------------------------------------------- refunds
\* views.py 219-262, RefundCreateView.post. One refund request q is a process:
\* idle -> loaded (validated, transaction read) -> checked -> done.
RefundRequests == {1, 2}
RefundTargets == {1, 2}
RefundAmounts == {0, 1, 2, 3}
RefundInputs == [merchant : Merchants, tx : RefundTargets, amount : RefundAmounts]

IdleRefund ==
  [pc |-> "idle", merchant |-> 1, tx |-> NoTx, amount |-> 0, sawStatus |-> "none",
   sawAmount |-> 0, resp |-> NoResp]

\* views.py 234: hasattr(tx, 'refund'), a query on the Refund table.
HasRefund(t) == \E i \in 1..Len(refunds) : refunds[i].tx = t

\* A Refund table without the unique index on transaction.
UniqueNotEnforced(t) == FALSE

\* models.py 47-52: transaction = OneToOneField(...), a unique column.
UniqueViolation(t) == HasRefund(t)

\* A status test that lets pending transactions through.
RefundableUnlessFailed(s) == s # "failed"

\* views.py 229: tx.status != 'succeeded' is rejected.
Refundable(s) == s = "succeeded"

\* An amount test that also rejects the full amount.
ExceedsOrEquals(a, txAmount) == a >= txAmount

\* views.py 240: refund_amount > tx.amount
ExceedsAmount(a, txAmount) == a > txAmount

RefundReturns(q, error, code) ==
  [q EXCEPT !.pc = "done", !.resp = standard_response(code = 201, q.tx, q.amount, error, code)]

\* views.py 221-231, serializers.py 38-41: the serializer validates (amount,
\* the transaction exists and has no refund yet), the transaction is read
\* under the merchant's ownership and its status is tested.
RefundLoad(q, inp) ==
  /\ rfq[q].pc = "idle"
  /\ IF q = 1 THEN TRUE ELSE rfq[q - 1].pc # "idle"
  /\ LET base == [rfq[q] EXCEPT !.merchant = inp.merchant, !.tx = inp.tx,
                                !.amount = inp.amount]
     IN IF inp.amount <= 0
        THEN rfq' = [rfq EXCEPT ![q] = RefundReturns(base, "amount", 400)]
        ELSE IF inp.tx \notin 1..Len(txs)
        THEN rfq' = [rfq EXCEPT ![q] = RefundReturns(base, "no transaction", 400)]
        ELSE IF HasRefund(inp.tx)
        THEN rfq' = [rfq EXCEPT ![q] = RefundReturns(base, "unique", 400)]
        ELSE IF txs[inp.tx].merchant # inp.merchant
        THEN rfq' = [rfq EXCEPT ![q] = RefundReturns(base, "not found", 400)]
        ELSE LET seen == [base EXCEPT !.sawStatus = txs[inp.tx].status,
                                      !.sawAmount = txs[inp.tx].amount]
             IN IF ~Refundable(txs[inp.tx].status)
                THEN rfq' = [rfq EXCEPT ![q] = RefundReturns(seen, "not succeeded", 400)]
                ELSE rfq' = [rfq EXCEPT ![q] = [seen EXCEPT !.pc = "loaded"]]
  /\ UNCHANGED <<req, idem, txs, settle, lockOwner, fanout, webhooks, dispatch, refunds, cache, lst, det, stray>>

\* views.py 233-242: already refunded? amount above the transaction's?
RefundCheck(q) ==
  /\ rfq[q].pc = "loaded"
  /\ IF HasRefund(rfq[q].tx)
     THEN rfq' = [rfq EXCEPT ![q] = RefundReturns(@, "already refunded", 400)]
     ELSE IF ExceedsAmount(rfq[q].amount, rfq[q].sawAmount)
     THEN rfq' = [rfq EXCEPT ![q] = RefundReturns(@, "cannot exceed", 400)]
     ELSE rfq' = [rfq EXCEPT ![q].pc = "checked"]
  /\ UNCHANGED <<req, idem, txs, settle, lockOwner, fanout, webhooks, dispatch, refunds, cache, lst, det, stray>>

\* views.py 244-262: Refund.objects.create, then the cache entries of the
\* transaction and of the merchant's list are deleted; an IntegrityError ends
\* in the except branch (400).
RefundCreate(q) ==
  /\ rfq[q].pc = "checked"
  /\ IF UniqueViolation(rfq[q].tx)
     THEN /\ rfq' = [rfq EXCEPT ![q] = RefundReturns(@, "integrity", 400)]
          /\ UNCHANGED <<refunds, cache>>
     ELSE /\ refunds' = Append(refunds, [tx |-> rfq[q].tx, amount |-> rfq[q].amount,
                                         status |-> "succeeded"])
          /\ cache' = ListDeletePattern([cache EXCEPT !.detail[rfq[q].tx] = NoData],
                                        rfq[q].merchant)
          /\ rfq' = [rfq EXCEPT ![q] = RefundReturns(@, "none", 201)]
  /\ UNCHANGED <<req, idem, txs, settle, lockOwner, fanout, webhooks, dispatch, lst, det, stray>>

\* ---------------------------------------------------------------- reads
IdleList == [pc |-> "idle", merchant |-> 1, page |-> NoPage, resp |-> NoPage]
NoDetail == [merchant |-> 0, tx |-> NoTx, status |-> 0, data |-> NoData]

\* views.py 140-143: Transaction.objects.filter(merchant=merchant)
TxsOf(m) == {t \in 1..Len(txs) : txs[t].merchant = m}

\* serializers.py 57-64: the representation of transaction t (merchant: whose
\* row it is).
TxData(t) == [id |-> t, merchant |-> txs[t].merchant, status |-> txs[t].status]

\* views.py 146-171: the list view up to the database query. A cached page is
\* returned at once.
ListRead(l, m) ==
  /\ lst[l].pc = "idle"
  /\ IF l = 1 THEN TRUE ELSE lst[l - 1].pc # "idle"
  /\ IF cache.list[m] # NoPage
     THEN lst' = [lst EXCEPT ![l] = [@ EXCEPT !.pc = "done", !.merchant = m,
                                              !.resp = cache.list[m]]]
     ELSE lst' = [lst EXCEPT ![l] = [@ EXCEPT !.pc = "queried", !.merchant = m,
                      !.page = [ids |-> TxsOf(m), overlapped |-> FALSE]]]
  /\ UNCHANGED <<req, idem, txs, settle, lockOwner, fanout, webhooks, dispatch, refunds, rfq, cache, det, stray>>

\* views.py 173-176: cache.set(cache_key, paginated_data, timeout=30) and the
\* answer.
ListStore(l) ==
  /\ lst[l].pc = "queried"
  /\ cache' = [cache EXCEPT !.list[lst[l].merchant] = lst[l].page]
  /\ lst' = [lst EXCEPT ![l].pc = "done", ![l].resp = lst[l].page]
  /\ UNCHANGED <<req, idem, txs, settle, lockOwner, fanout, webhooks, dispatch, refunds, rfq, det, stray>>

\* views.py 194-214, TransactionDetailView.retrieve for merchant m and id t.
DetailRead(m, t) ==
  /\ IF cache.detail[t] # NoData
     THEN /\ det' = [merchant |-> m, tx |-> t, status |-> 200, data |-> cache.detail[t]]
          /\ UNCHANGED cache
     ELSE IF t \in TxsOf(m)
     THEN /\ cache' = [cache EXCEPT !.detail[t] = TxData(t)]
          /\ det' = [merchant |-> m, tx |-> t, status |-> 200, data |-> TxData(t)]
     ELSE /\ det' = [merchant |-> m, tx |-> t, status |-> 404, data |-> NoData]
          /\ UNCHANGED cache
  /\ UNCHANGED <<req, idem, txs, settle, lockOwner, fanout, webhooks, dispatch, refunds, rfq, lst, stray>>

\* views.py 175: timeout=30, the cached page expires.
ListExpire(m) ==
  /\ cache.list[m] # NoPage
  /\ cache' = [cache EXCEPT !.list[m] = NoPage]
  /\ UNCHANGED <<req, idem, txs, settle, lockOwner, fanout, webhooks, dispatch, refunds, rfq, lst, det, stray>>

\* views.py 207: timeout=30, the cached transaction expires.
DetailExpire(t) ==
  /\ cache.detail[t] # NoData
  /\ cache' = [cache EXCEPT !.detail[t] = NoData]
  /\ UNCHANGED <<req, idem, txs, settle, lockOwner, fanout, webhooks, dispatch, refunds, rfq, lst, det, stray>>

\* ---------------------------------------------------------------- spec
Init ==
  /\ req = [r \in Requests |-> IdleReq]
  /\ idem = [k \in Keys |-> NoRow]
  /\ txs = <<>>
  /\ settle = <<>>
  /\ lockOwner = <<>>
  /\ fanout = <<>>
  /\ webhooks = <<>>
  /\ dispatch = <<>>
  /\ refunds = <<>>
  /\ rfq = [q \in RefundRequests |-> IdleRefund]
  /\ cache = [detail |-> [t \in Transactions |-> NoData],
              list |-> [m \in Merchants |-> NoPage]]
  /\ lst = [l \in ListReaders |-> IdleList]
  /\ det = NoDetail
  /\ stray = [id \in MissingIds |-> "none"]

\* Messages of the settlement task for ids without a row.
Strays ==
  \/ \E id \in MissingIds : StrayArrives(id)
  \/ \E id \in MissingIds : SettleMissing(id)

\* The synchronous path: requests through the middleware and the view.
Api(inputs, rs) ==
  \/ \E r \in rs, inp \in inputs : GateCheck(r, inp)
  \/ \E r \in rs : ViewCheck(r)
  \/ \E r \in rs : ViewCreate(r)
  \/ \E r \in rs : ViewRecord(r)
  \/ \E r \in rs : GateStore(r)

\* Deliveries of the settlement task.
Settlement ==
  \/ \E t \in Transactions, d \in Deliveries : Redeliver(t, d)
  \/ \E t \in Transactions, d \in Deliveries : SettleLock(t, d)
  \/ \E t \in Transactions, d \in Deliveries : SettleCommit(t, d)
  \/ \E t \in Transactions, d \in Deliveries : SettleAbort(t, d)
  \/ \E t \in Transactions, d \in Deliveries : SettleEnqueue(t, d)
  \/ \E t \in Transactions, d \in Deliveries : SettleEnqueueFail(t, d)

\* The worker pool: settlement, fan-out and webhook delivery.
Workers ==
  \/ Settlement
  \/ \E t \in Transactions : SendWebhooks(t)
  \/ \E i \in 1..MaxDispatch : DeliverOk(i)
  \/ \E i \in 1..MaxDispatch : DeliverFail(i)
  \/ \E i \in 1..MaxDispatch : DeliverGone(i)

\* Webhook deliveries with every kind of answer.
AnsweredDeliveries == \E i \in 1..MaxDispatch, a \in Answers : DeliverAnswer(i, a)

\* Registration and deletion of webhook endpoints by the merchants.
Endpoints ==
  \/ \E m \in Merchants : WebhookCreate(m)
  \/ \E m \in Merchants, w \in WebhookIds : WebhookDelete(m, w)

\* Refund requests.
Refunds ==
  \/ \E q \in RefundRequests, inp \in RefundInputs : RefundLoad(q, inp)
  \/ \E q \in RefundRequests : RefundCheck(q)
  \/ \E q \in RefundRequests : RefundCreate(q)

\* The cached read views.
Reads ==
  \/ \E l \in ListReaders, m \in Merchants : ListRead(l, m)
  \/ \E l \in ListReaders : ListStore(l)
  \/ \E m \in Merchants, t \in Transactions : DetailRead(m, t)
  \/ \E m \in Merchants : ListExpire(m)
  \/ \E t \in Transactions : DetailExpire(t)

\* Outages of the idempotency store and exceptions that leave the view.
Failures(inputs, rs) ==
  \/ \E r \in rs, inp \in inputs : GateCheckFail(r, inp)
  \/ \E r \in rs : ViewCheckFail(r)
  \/ \E r \in rs : HandlerRaise(r)
  \/ \E r \in rs : GateStoreFail(r)

AllInputs ==
  [key : Keys \cup {NoKey}, method : {"POST", "GET"}, merchant : Merchants,
   amount : {0, 1, 2}, pk : {"pk1", "pk2", "bad"}]

Next ==
  \/ Api(AllInputs, Requests)
  \/ Failures(AllInputs, Requests)
  \/ Workers
  \/ AnsweredDeliveries
  \/ Strays
  \/ Endpoints
  \/ Refunds
  \/ Reads

Spec == Init /\ [][Next]_vars

\* The request path alone. The workers and the endpoint views read and write
\* neither req nor idem, so the request path behaves here as it does in Spec.
SpecApi == Init /\ [][Api(RequestInputs, Requests)]_vars

\* The asynchronous pipeline behind one valid creation request (with or
\* without key); every behaviour of it is a behaviour of Spec.
PlainRequests == {1}
PlainInputs ==
  [key : Keys \cup {NoKey}, method : {"POST"}, merchant : {1}, amount : {1},
   pk : {"pk1"}]

NextJobs == Api(PlainInputs, PlainRequests) \/ Workers \/ Endpoints

SpecJobs == Init /\ [][NextJobs]_vars

\* Refund requests against one transaction of amount 2 while it is settled.
LedgerInputs ==
  [key : {NoKey}, method : {"POST"}, merchant : {1}, amount : {2}, pk : {"pk1"}]

NextRefund ==
  \/ \E inp \in LedgerInputs : GateCheck(1, inp)
  \/ ViewCreate(1)
  \/ Settlement
  \/ Refunds

SpecRefund == Init /\ [][NextRefund]_vars

\* Settlement behind one creation request, with workers that keep running: a delivered
\* task is started by a worker as soon as the row lock is free (tasks.py 27),
\* and a started task runs on to its end (tasks.py 26-40).
NextSettle == Api(PlainInputs, PlainRequests) \/ Settlement

WorkersRun ==
  \A t \in Transactions, d \in Deliveries :
    /\ WF_vars(SettleLock(t, d))
    /\ WF_vars(SettleCommit(t, d) \/ SettleAbort(t, d))
    /\ WF_vars(SettleEnqueue(t, d) \/ SettleEnqueueFail(t, d))

SpecSettle == Init /\ [][NextSettle]_vars /\ WorkersRun

\* Settlement of created transactions next to messages for ids without a row.
NextStray == Api(PlainInputs, PlainRequests) \/ Settlement \/ Strays

SpecStray == Init /\ [][NextStray]_vars

\* One settled transaction, its fan-out, and deliveries answered in every way.
NextDeliver ==
  \/ \E inp \in LedgerInputs : GateCheck(1, inp)
  \/ ViewCreate(1)
  \/ SettleLock(1, 1)
  \/ SettleCommit(1, 1)
  \/ SettleEnqueue(1, 1)
  \/ SendWebhooks(1)
  \/ \E m \in Merchants : WebhookCreate(m)
  \/ AnsweredDeliveries

SpecDeliver == Init /\ [][NextDeliver]_vars

\* Creation requests by both merchants (the payment key is merchant 1's) next
\* to the cached list and detail reads.
CacheInputs ==
  [key : {NoKey}, method : {"POST"}, merchant : Merchants, amount : {1},
   pk : {"pk1"}]

NextCache ==
  \/ \E r \in Requests, inp \in CacheInputs : GateCheck(r, inp)
  \/ \E r \in Requests : ViewCreate(r)
  \/ Reads

SpecCache == Init /\ [][NextCache]_vars

\* Two requests through the gate, with store outages, exceptions leaving the
\* view, and requests the gate does not guard.
GateRequests == {1, 2}
GateInputs ==
  [key : Keys \cup {NoKey}, method : {"POST", "GET"}, merchant : {1},
   amount : {0, 1}, pk : {"pk1"}]

NextGate == Api(GateInputs, GateRequests) \/ Failures(GateInputs, GateRequests)

SpecGate == Init /\ [][NextGate]_vars

\* ---------------------------------------------------------------- claims
KeyedRequests(k) == {r \in Requests : req[r].key = k}
MadeUnder(k) == {req[r].made : r \in KeyedRequests(k)} \ {NoTx}
JobsUnder(k) == {t \in MadeUnder(k) : settle[t][1] # "none"}

\* C1: for requests that share an Idempotency-Key the create handler takes
\* effect once: at most one Transaction is created and at most one settlement
\* job is enqueued under the key, and exactly one of each once a request with
\* the key has been answered 201.
C1_OneExecutionPerKey ==
  \A k \in Keys :
    /\ Cardinality(MadeUnder(k)) <= 1
    /\ Cardinality(JobsUnder(k)) <= 1
    /\ (\E r \in KeyedRequests(k) : req[r].pc = "done" /\ req[r].resp.status = 201)
         => Cardinality(MadeUnder(k)) = 1 /\ Cardinality(JobsUnder(k)) = 1

\* The content of a row or a response, whatever the JSON nesting of its body.
Content(row) == [status |-> row.status, body |-> [row.body EXCEPT !.enc = 0]]

SameRequest(r1, r2) ==
  /\ req[r1].merchant = req[r2].merchant
  /\ req[r1].amount = req[r2].amount
  /\ req[r1].pk = req[r2].pk

\* C2: all answered requests that share an Idempotency-Key (here: duplicates
\* of one request) have received the same status and the same body content.
C2_SameResponsePerKey ==
  \A k \in Keys : \A r1, r2 \in KeyedRequests(k) :
    req[r1].pc = "done" /\ req[r2].pc = "done" /\ SameRequest(r1, r2)
    => Content(req[r1].resp) = Content(req[r2].resp)

\* C3: a request that arrives when the row of its key is populated is answered
\* in its check step with the stored status and the stored body (decoded),
\* whatever its payload, and that step creates no Transaction, enqueues no
\* settlement job and leaves the row as it is.
C3_ReplayOfStoredResponse ==
  [][\A r \in Requests :
       (req[r].pc = "idle" /\ req'[r].pc # "idle" /\ req'[r].key # NoKey
          /\ Populated(idem[req'[r].key]))
       => /\ req'[r].pc = "done"
          /\ req'[r].made = NoTx
          /\ req'[r].resp.status = idem[req'[r].key].status
          /\ req'[r].resp.body.enc = IF idem[req'[r].key].body.enc = 0 THEN 0
                                     ELSE idem[req'[r].key].body.enc - 1
          /\ [req'[r].resp.body EXCEPT !.enc = 0] = [idem[req'[r].key].body EXCEPT !.enc = 0]
          /\ txs' = txs /\ settle' = settle /\ idem' = idem]_vars

\* C3 witness: a request with another amount was answered from the stored 201.
C3_Witness ==
  \E r \in Requests :
    /\ req[r].pc = "done" /\ Populated(req[r].saw)
    /\ req[r].resp.status = 201
    /\ req[r].amount # req[r].resp.body.amount

\* C4: once the row of a key is populated, no step changes its status or the
\* content of its body.
C4_WriteOnce ==
  [][\A k \in Keys : Populated(idem[k]) => Content(idem'[k]) = Content(idem[k])]_vars

SettledBy(t) == {d \in Deliveries : settle[t][d] \in {"committed", "done"}}

\* C5: a transaction's status, once succeeded or failed, never changes again,
\* however often the settlement job is delivered.
C5_StatusTerminal ==
  [][\A t \in 1..Len(txs) :
       txs[t].status # "pending" => txs'[t].status = txs[t].status]_vars

\* C6: at most one fan-out job is ever enqueued for a transaction.
C6_OneFanOut == \A t \in 1..Len(txs) : fanout[t].total <= 1

\* C7: when a delivery of the settlement job has ended with an exception (and
\* no other delivery has settled the transaction), the status is pending.
C7_RaisedLeavesPending ==
  \A t \in 1..Len(txs) : \A d \in Deliveries :
    (settle[t][d] = "raised" /\ SettledBy(t) = {}) => txs[t].status = "pending"

\* C8: fan-out jobs are enqueued only by deliveries whose settlement write has
\* committed, the transaction is then succeeded or failed, and every payload
\* built by a fan-out carries succeeded or failed.
C8_SettledBeforeFanOut ==
  /\ \A t \in 1..Len(txs) :
       /\ fanout[t].total = Cardinality({d \in Deliveries : settle[t][d] = "done"})
       /\ fanout[t].total > 0 => txs[t].status \in {"succeeded", "failed"}
  /\ \A i \in 1..Len(dispatch) : dispatch[i].payload.status \in {"succeeded", "failed"}

\* C8 witness: a fan-out has run and built a payload.
C8_Witness ==
  \E i \in 1..Len(dispatch) :
    fanout[dispatch[i].payload.id].queued = 0 /\ dispatch[i].payload.status = "failed"

\* C9: a dispatch job runs at most 3 times and posts at most 3 times.
C9_AtMostThreeAttempts ==
  \A i \in 1..Len(dispatch) : dispatch[i].runs <= 3 /\ dispatch[i].posts <= 3

\* C9 witness: a job has failed for good after three posts.
C9_Witness ==
  \E i \in 1..Len(dispatch) : dispatch[i].state = "failed" /\ dispatch[i].posts = 3

\* C10: a job that has succeeded at run k (1..3, after k-1 failures) is
\* delivered, has logged no permanent failure and is never run again.
C10_StopsAtFirstSuccess ==
  /\ [](\A i \in 1..Len(dispatch) :
          dispatch[i].state = "delivered"
          => /\ dispatch[i].logged = 0
             /\ dispatch[i].runs = dispatch[i].retries + 1
             /\ dispatch[i].runs \in 1..3)
  /\ [][\A i \in 1..Len(dispatch) :
          dispatch[i].state = "delivered" => dispatch'[i] = dispatch[i]]_vars

\* C10 witness: a job was delivered at its third run.
C10_Witness ==
  \E i \in 1..Len(dispatch) : dispatch[i].state = "delivered" /\ dispatch[i].runs = 3

\* C11: a dispatch job whose three attempts have all failed is in the terminal
\* state failed with exactly one permanent-failure event logged; a job that has
\* used up its attempts without success is never left in another state, and a
\* failed job is never run or queued again.
C11_PermanentFailure ==
  /\ [](\A i \in 1..Len(dispatch) :
          /\ dispatch[i].state = "failed"
             => dispatch[i].logged = 1 /\ dispatch[i].runs = max_retries + 1
          /\ (dispatch[i].runs = max_retries + 1 /\ dispatch[i].state # "delivered")
             => dispatch[i].state = "failed" /\ dispatch[i].logged = 1)
  /\ [][\A i \in 1..Len(dispatch) :
          dispatch[i].state = "failed" => dispatch'[i] = dispatch[i]]_vars

\* C11 witness: a job has failed three times and the failure is on record.
C11_Witness ==
  \E i \in 1..Len(dispatch) :
    /\ dispatch[i].state = "failed" /\ dispatch[i].logged = 1
    /\ dispatch[i].runs = 3 /\ dispatch[i].retries = max_retries

\* Two jobs of one fan-out, for two endpoints of the transaction's merchant.
Siblings(i, j) ==
  /\ i # j
  /\ dispatch[i].payload.id = dispatch[j].payload.id
  /\ dispatch[i].wb # dispatch[j].wb

\* C12: for two endpoints of one merchant, a step of the job for one endpoint
\* (a failure, a retry, the permanent failure) changes nothing of the job for
\* the other, and whatever the state of the first job the second can be
\* delivered as long as it is queued and its endpoint is registered.
C12_EndpointIndependence ==
  /\ [][\A i, j \in 1..Len(dispatch) :
          (Siblings(i, j) /\ dispatch'[i] # dispatch[i]) => dispatch'[j] = dispatch[j]]_vars
  /\ [](\A j \in 1..Len(dispatch) :
          (dispatch[j].state = "queued" /\ webhooks[dispatch[j].wb].live)
          => ENABLED DeliverOk(j))

\* C12 witness: one endpoint's job failed for good, the other's was delivered
\* at its first attempt.
C12_Witness ==
  \E i, j \in 1..Len(dispatch) :
    /\ Siblings(i, j)
    /\ webhooks[dispatch[i].wb].merchant = webhooks[dispatch[j].wb].merchant
    /\ dispatch[i].state = "failed" /\ dispatch[i].posts = 3
    /\ dispatch[j].state = "delivered" /\ dispatch[j].runs = 1

RefundsOf(t) == {i \in 1..Len(refunds) : refunds[i].tx = t}

\* C13: a transaction never has more than one Refund, also when refund
\* requests for it run concurrently, and every step of a refund request on a
\* transaction that has a refund ends the request with an error and inserts
\* nothing.
C13_AtMostOneRefund ==
  /\ [](\A t \in Transactions : Cardinality(RefundsOf(t)) <= 1)
  /\ [][\A q \in RefundRequests :
          (rfq'[q] # rfq[q] /\ HasRefund(rfq'[q].tx))
          => /\ rfq'[q].pc = "done"
             /\ rfq'[q].resp.status = 400
             /\ refunds' = refunds]_vars

\* C13 witness: two requests passed the checks together; one created the
\* refund, the other was stopped by the unique column.
C13_Witness ==
  \E q1, q2 \in RefundRequests :
    /\ rfq[q1].pc = "done" /\ rfq[q1].resp.status = 201
    /\ rfq[q2].pc = "done" /\ rfq[q2].tx = rfq[q1].tx
    /\ rfq[q2].resp.status = 400 /\ rfq[q2].resp.body.error = "integrity"
    /\ Cardinality(RefundsOf(rfq[q1].tx)) = 1

\* C14: a refund request that arrives when its transaction is pending or failed
\* is answered with an error in that step, whatever its amount, and inserts no
\* Refund; a request that created a Refund had read the status succeeded.
C14_OnlySucceededRefunded ==
  /\ [][\A q \in RefundRequests :
          (rfq[q].pc = "idle" /\ rfq'[q].pc # "idle"
             /\ rfq'[q].tx \in 1..Len(txs)
             /\ txs[rfq'[q].tx].status # "succeeded")
          => /\ rfq'[q].pc = "done"
             /\ rfq'[q].resp.status = 400
             /\ refunds' = refunds]_vars
  /\ [](\A q \in RefundRequests :
          rfq[q].resp.status = 201 => rfq[q].sawStatus = "succeeded")

\* C14 witness: requests with a valid amount were rejected, one for a pending
\* and one for a failed transaction of the merchant.
C14_Witness ==
  \E q1, q2 \in RefundRequests :
    /\ rfq[q1].resp.body.error = "not succeeded" /\ rfq[q1].sawStatus = "pending"
    /\ rfq[q2].resp.body.error = "not succeeded" /\ rfq[q2].sawStatus = "failed"
    /\ rfq[q1].amount = 1 /\ rfq[q2].amount = 2
    /\ refunds = <<>>

\* C15: every Refund has 0 < amount <= transaction.amount; a request with
\* amount <= 0 or amount > transaction.amount ends with an error (with "cannot
\* exceed" when it got as far as the amount test) and inserts nothing; a
\* request for the full amount is never rejected for its amount, only for the
\* transaction's owner, status or existing refund.
C15_RefundAmountBounds ==
  /\ \A i \in 1..Len(refunds) :
       0 < refunds[i].amount /\ refunds[i].amount <= txs[refunds[i].tx].amount
  /\ \A q \in RefundRequests :
       LET r == rfq[q]
           err == r.resp.body.error
       IN /\ (r.pc = "done" /\ r.tx \in 1..Len(txs)
                /\ (r.amount <= 0 \/ r.amount > txs[r.tx].amount))
             => r.resp.status = 400
          /\ (r.pc = "done" /\ r.amount <= 0) => err = "amount"
          /\ err = "cannot exceed" <=> (r.pc = "done" /\ r.sawStatus = "succeeded"
                                          /\ r.amount > r.sawAmount /\ err # "already refunded")
          /\ r.pc = "checked" => r.amount <= r.sawAmount
          /\ (r.pc = "done" /\ r.tx \in 1..Len(txs) /\ r.amount = txs[r.tx].amount
                /\ r.resp.status # 201)
             => /\ err \in {"no transaction", "unique", "not found", "not succeeded",
                            "already refunded", "integrity"}
                /\ err \in {"unique", "already refunded", "integrity"} => HasRefund(r.tx)
                /\ err = "not succeeded" => r.sawStatus # "succeeded"
                /\ err = "not found" => txs[r.tx].merchant # r.merchant

\* C15 witness: the full amount was refunded, and a request above the amount
\* of the same succeeded transaction was rejected with "cannot exceed".
C15_Witness ==
  \E q1, q2 \in RefundRequests :
    /\ rfq[q1].resp.status = 201 /\ rfq[q1].amount = txs[rfq[q1].tx].amount
    /\ rfq[q2].resp.body.error = "cannot exceed" /\ rfq[q2].tx = rfq[q1].tx
    /\ rfq[q2].amount = 3 /\ Len(refunds) = 1

\* C16: a transaction-detail read by merchant M that is answered 200 carries
\* the data of a transaction owned by M.
C16_DetailScopedByOwner == det.status = 200 => det.data.merchant = det.merchant

\* C17 (as claimed): once a creation request of merchant M has been answered
\* 201, a list page of M in the cache -- what the next list read of M
\* returns -- includes the new transaction.
C17_NextListIncludesNew ==
  \A r \in Requests :
    (req[r].pc = "done" /\ req[r].resp.status = 201)
    => \/ cache.list[req[r].merchant] = NoPage
       \/ req[r].made \in cache.list[req[r].merchant].ids

\* C17 (amended): the step that creates a transaction of M leaves no list page
\* of M in the cache; a list read that goes to the database, and a page in the
\* cache, show all transactions of M unless the read had queried the database
\* before a creation that has invalidated M's pages since.
C17_InvalidatedOnCreation ==
  /\ [][\A r \in Requests :
          (req[r].made = NoTx /\ req'[r].made # NoTx)
          => cache'.list[req'[r].merchant] = NoPage]_vars
  /\ [](\A m \in Merchants :
          cache.list[m] # NoPage
          => cache.list[m].ids = TxsOf(m) \/ cache.list[m].overlapped)
  /\ [](\A l \in ListReaders :
          lst[l].pc = "queried"
          => lst[l].page.ids = TxsOf(lst[l].merchant) \/ lst[l].page.overlapped)

\* C17 witness: the empty page cached before the creation is gone, and the
\* next list read has cached and returned a page with the new transaction.
C17_Witness ==
  \E l1, l2 \in ListReaders : \E r \in Requests :
    /\ req[r].pc = "done" /\ req[r].resp.status = 201
    /\ lst[l1].pc = "done" /\ lst[l1].merchant = req[r].merchant
    /\ lst[l1].resp.ids = {}
    /\ lst[l2].pc = "done" /\ lst[l2].merchant = req[r].merchant
    /\ req[r].made \in lst[l2].resp.ids /\ ~lst[l2].resp.overlapped
    /\ cache.list[req[r].merchant] = lst[l2].resp

Unguarded(q) == q.key = NoKey \/ q.method \notin GuardedMethods

\* C18: a request without Idempotency-Key, or with a method other than POST and
\* PUT, goes to the view and back: it is answered with what the view returned,
\* it never reaches the store step, and no step of it changes the
\* IdempotencyKey table.
C18_UnguardedRunsHandler ==
  /\ [][\A r \in Requests :
          (req'[r] # req[r] /\ Unguarded(req'[r])) => idem' = idem]_vars
  /\ [](\A r \in Requests :
          (req[r].pc # "idle" /\ Unguarded(req[r]))
          => /\ req[r].pc \in {"create", "done"}
             /\ ~req[r].flag
             /\ req[r].pc = "done"
                => req[r].out # NoResp /\ req[r].resp = req[r].out)

\* C18 witness: a POST without key created a transaction and a GET with a key
\* was answered by the view, with the table still empty.
C18_Witness ==
  \E r1, r2 \in Requests :
    /\ req[r1].pc = "done" /\ req[r1].key = NoKey /\ req[r1].resp.status = 201
    /\ req[r2].pc = "done" /\ req[r2].key # NoKey /\ req[r2].method = "GET"
    /\ req[r2].resp.status = 405
    /\ \A k \in Keys : ~Populated(idem[k])

\* C19: when the view of a guarded request has raised, the row of the key is
\* not populated once the request is over.
C19_RaiseLeavesKeyFree ==
  \A r \in Requests :
    (req[r].pc = "done" /\ req[r].flag /\ req[r].resp = ServerError)
    => ~Populated(idem[req[r].key])

\* A guarded request whose check step could not read the store.
FailedOpen(q) ==
  /\ q.pc # "idle"
  /\ q.key # NoKey /\ q.method \in GuardedMethods
  /\ ~q.flag /\ ~Populated(q.saw)

\* C20: a guarded request whose check step failed is passed to the view and
\* answered with what the view returned; and the end of the store step, failed
\* or not, leaves the response as the view returned it.
C20_FailOpen ==
  /\ [](\A r \in Requests :
          FailedOpen(req[r])
          => /\ req[r].pc \in {"view", "create", "record", "done"}
             /\ req[r].pc = "done"
                => req[r].out # NoResp /\ req[r].resp = req[r].out)
  /\ [][\A r \in Requests :
          (req[r].pc = "store" /\ req'[r].pc = "done")
          => req[r].out # NoResp /\ req'[r].resp = req[r].out]_vars

\* C20 witness: one request was answered 400 and its store step failed (the
\* row does not hold its response); the other's check step failed and the view
\* created its transaction.
C20_Witness ==
  \E r1, r2 \in Requests :
    /\ req[r1].pc = "done" /\ FailedOpen(req[r1])
    /\ req[r1].resp.status = 201 /\ req[r1].made # NoTx
    /\ req[r2].pc = "done" /\ req[r2].flag /\ req[r2].key = req[r1].key
    /\ req[r2].resp.status = 400
    /\ idem[req[r2].key].status = 201

\* Delivery d of the settlement job of t is in one of the positions ps.
DeliveryAt(t, d, ps) == IF t \in 1..Len(txs) THEN settle[t][d] \in ps ELSE FALSE

StatusIn(t, ss) == IF t \in 1..Len(txs) THEN txs[t].status \in ss ELSE FALSE

\* C21: with workers that keep running, every transaction created with its
\* settlement job enqueued eventually is succeeded or failed, or a delivery of
\* the job has ended with an exception; and every delivery that was queued
\* ends (done or raised), none stays queued, locked or committed forever.
C21_SettlementEnds ==
  /\ \A t \in Transactions :
       DeliveryAt(t, 1, {"queued"})
       ~> (\/ StatusIn(t, {"succeeded", "failed"})
           \/ \E d \in Deliveries : DeliveryAt(t, d, {"raised"}))
  /\ \A t \in Transactions : \A d \in Deliveries :
       DeliveryAt(t, d, {"queued", "locked", "committed"})
       ~> DeliveryAt(t, d, {"done", "raised"})

\* C21 witness: one delivery ended with an exception inside the atomic block,
\* a second delivery settled the transaction and ended.
C21_Witness ==
  \E t \in 1..Len(txs) : \E d1, d2 \in Deliveries :
    /\ settle[t][d1] = "raised" /\ settle[t][d2] = "done"
    /\ txs[t].status \in {"succeeded", "failed"}
    /\ lockOwner[t] = 0

\* C22: a job is delivered only by a run whose POST was answered 2xx.
C22_DeliveredOnly2xx ==
  \A i \in 1..Len(dispatch) :
    dispatch[i].state = "delivered" => dispatch[i].last = "2xx"

\* C23: no two dispatch jobs are for the same endpoint and transaction.
C23_OneJobPerPair ==
  \A i, j \in 1..Len(dispatch) :
    (dispatch[i].wb = dispatch[j].wb /\ dispatch[i].payload.id = dispatch[j].payload.id)
    => i = j

\* A creation request the view must reject: amount <= 0, a payment key that is
\* unknown or inactive, or a payment key of another merchant.
Rejectable(q) ==
  IF q.amount <= 0 THEN TRUE
  ELSE IF q.pk \notin ActivePaymentKeys THEN TRUE
  ELSE PaymentKeyOwner[q.pk] # q.merchant

\* C24: the view's creation step, for a valid request, appends exactly one
\* Transaction (pending, owned by the requesting merchant, with the requested
\* amount) and enqueues exactly one settlement message for its id; for a
\* request with amount <= 0, an unknown payment key or a foreign payment key it
\* answers 400 or 403 and changes neither table nor queue. Every transaction
\* was created by exactly one request.
C24_CreationEffect ==
  /\ [][\A r \in Requests :
          (req[r].pc = "create" /\ req'[r] # req[r])
          => IF Rejectable(req[r])
             THEN /\ txs' = txs /\ settle' = settle /\ fanout' = fanout
                  /\ req'[r].resp.status \in {400, 403}
                  /\ ~req'[r].resp.body.success
                  /\ req'[r].made = NoTx
             ELSE /\ Len(txs') = Len(txs) + 1
                  /\ SubSeq(txs', 1, Len(txs)) = txs
                  /\ txs'[Len(txs')].status = "pending"
                  /\ txs'[Len(txs')].merchant = req[r].merchant
                  /\ txs'[Len(txs')].amount = req[r].amount
                  /\ Len(settle') = Len(txs')
                  /\ SubSeq(settle', 1, Len(settle)) = settle
                  /\ Cardinality({d \in Deliveries : settle'[Len(txs')][d] # "none"}) = 1
                  /\ settle'[Len(txs')][1] = "queued"
                  /\ req'[r].made = Len(txs')
                  /\ req'[r].resp.status = 201
                  /\ req'[r].resp.body.id = Len(txs')]_vars
  /\ [](\A t \in 1..Len(txs) : Cardinality({r \in Requests : req[r].made = t}) = 1)

\* C24 witness: merchant 1 was answered 201 for the one pending transaction
\* that exists; a request with merchant 1's payment key by merchant 2 was
\* answered 403.
C24_Witness ==
  \E r1, r2 \in Requests :
    /\ req[r1].pc = "done" /\ req[r1].resp.status = 201 /\ req[r1].made = 1
    /\ txs[1].status = "pending" /\ txs[1].merchant = req[r1].merchant
    /\ req[r2].pc = "done" /\ req[r2].resp.status = 403 /\ req[r2].made = NoTx
    /\ Len(txs) = 1 /\ settle[1][1] = "queued"

\* C25: a settlement run for an id without a row ends normally (it is neither
\* re-raised to the queue nor run again), and its step changes no transaction,
\* no lock, no settlement delivery and no fan-out or dispatch message.
C25_MissingEndsQuietly ==
  /\ [][\A id \in MissingIds :
          (stray[id] = "queued" /\ stray'[id] # "queued")
          => /\ stray'[id] = "ended"
             /\ txs' = txs /\ lockOwner' = lockOwner /\ settle' = settle
             /\ fanout' = fanout /\ dispatch' = dispatch]_vars
  /\ [][\A id \in MissingIds : stray[id] = "ended" => stray'[id] = "ended"]_vars
  /\ [](\A id \in MissingIds : stray[id] # "raised")

\* C25 witness: a run for a missing id has ended while a transaction exists
\* that a settlement delivery has written.
C25_Witness ==
  \E id \in MissingIds :
    /\ stray[id] = "ended"
    /\ Len(txs) = 1 /\ txs[1].status \in {"succeeded", "failed"}
    /\ fanout[1].total = 1

\* The deliveries of t that are inside the atomic block.
InBlock(t) == {d \in Deliveries : settle[t][d] = "locked"}

\* C26: for every transaction at most one settlement delivery is inside the
\* atomic block, the row lock is held exactly by that delivery (a delivery that
\* is queued, committed, done or raised holds no lock), and the step that
\* enqueues the fan-out is taken by a delivery that does not hold the lock.
C26_LockOnlyInBlock ==
  /\ [](\A t \in 1..Len(txs) :
          /\ Cardinality(InBlock(t)) <= 1
          /\ IF lockOwner[t] = 0 THEN InBlock(t) = {} ELSE InBlock(t) = {lockOwner[t]})
  /\ [][\A t \in 1..Len(txs) :
          fanout'[t] # fanout[t]
          => \A d \in Deliveries :
               settle'[t][d] # settle[t][d]
               => /\ lockOwner[t] # d /\ lockOwner'[t] # d
                  /\ settle[t][d] # "locked"]_vars

\* C26 witness: one delivery has committed and enqueued the fan-out while a
\* second delivery of the same transaction holds the row lock.
C26_Witness ==
  \E t \in 1..Len(txs) : \E d1, d2 \in Deliveries :
    /\ settle[t][d1] = "done" /\ fanout[t].total = 1
    /\ settle[t][d2] = "locked" /\ lockOwner[t] = d2

\* C27: a refund request with a valid amount on a transaction of another
\* merchant is answered 403 or 404 (and no Refund is stored for it).
C27_ForeignRefundDenied ==
  \A q \in RefundRequests :
    (/\ rfq[q].pc = "done"
     /\ rfq[q].amount > 0
     /\ rfq[q].tx \in 1..Len(txs)
     /\ IF rfq[q].tx \in 1..Len(txs) THEN txs[rfq[q].tx].merchant # rfq[q].merchant ELSE FALSE)
    => rfq[q].resp.status \in {403, 404}

\* C28: a creation request whose answer is an error (success false, status 400
\* or 403) has created no Transaction, and so enqueued no settlement message.
C28_ErrorCreatedNothing ==
  \A r \in Requests :
    (/\ req[r].pc = "done"
     /\ req[r].resp.status \in {400, 403}
     /\ ~req[r].resp.body.success)
    => req[r].made = NoTx

\* C29: a request that is answered with the body of a created transaction is
\* a request of the merchant that owns the transaction: a stored response is
\* never given to another merchant that sends the same Idempotency-Key.
C29_ReplayToOwnerOnly ==
  \A r \in Requests :
    (/\ req[r].pc = "done"
     /\ req[r].out.body.success
     /\ req[r].out.body.id \in 1..Len(txs))
    => IF req[r].out.body.id \in 1..Len(txs)
       THEN txs[req[r].out.body.id].merchant = req[r].merchant
       ELSE TRUE

\* C30: every transaction that has a Refund has status succeeded.
C30_RefundedIsSucceeded ==
  \A i \in 1..Len(refunds) : txs[refunds[i].tx].status = "succeeded"

\* The guarded POST requests that are finished and whose handler returned a
\* 4xx response to the gate.
Returned4xx ==
  {r \in Requests : /\ req[r].pc = "done" /\ req[r].flag
                    /\ req[r].method = "POST"
                    /\ req[r].out.status \in 400..499}

\* C31: after a guarded POST whose handler returned a 4xx response, a POST
\* that arrives with the same key is answered from the record with that same
\* response: in every state the record of the key is populated and holds the
\* status and (decoded) body the handler returned.
C31_ErrorReplayedToLater ==
  \A r \in Returned4xx :
    /\ GateCheckReplays(idem[req[r].key])
    /\ idem[req[r].key].status = req[r].out.status
    /\ JsonLoadsOrSelf(idem[req[r].key].body) = req[r].out.body
====
